---- MODULE Spec2Model ----
(***************************************************************************)
(* jupyter-sqlglot: the SQL region locator (utils.py), the interpolation   *)
(* masker and format orchestrator (formatter.py) and the splicer and       *)
(* pre_run_cell hook (hooks.py).                                           *)
(*                                                                         *)
(* A Python str is a sequence of one-character strings.  Offsets are       *)
(* Python offsets: 0-based, end exclusive.                                 *)
(***************************************************************************)
EXTENDS Integers, Sequences, FiniteSets, TLC

VARIABLES
    \* harness of the pure functions (find_sql_to_format, mask/unmask)
    arg,              \* the text the function is applied to
    stage,            \* "start" | "located" | "masked" | "unmasked"
    regions,          \* find_sql_to_format(arg)
    masked_sql,       \* mask_interpolations(arg)[0]
    mapping,          \* mask_interpolations(arg)[1], in insertion order
    restored,         \* unmask_interpolations(masked_sql, mapping)
    \* pre_run_cell_hook and format_cell_content
    raw_cell,         \* info.raw_cell
    entry_cell,       \* info.raw_cell when the hook was entered
    pc,               \* position inside the hook
    sql_contexts,     \* format_cell_content: sql_contexts
    pending,          \* the regions the loop has still to visit, in its order
    modified_content, \* format_cell_content: modified_content
    changes_made,     \* format_cell_content: changes_made
    outcomes,         \* per region: what the iteration did with it
    returned,         \* return value of format_cell_content
    next_input,       \* last text given to _shell.set_next_input
    printed,          \* the hook printed "jupyter-sqlglot error: ..."
    raised,           \* where an exception was raised in this invocation
    shell,            \* hooks._shell is set
    memo,             \* <<text, result>> of every format_sql call so far
    pass,             \* "first" | "second" execution of the cell
    prev,             \* the first execution's entry text, regions, outcomes, result
    \* magics.py and the registration of the hook
    config_objects,   \* the SQLGlotConfig instances alive, by identity 1, 2, ...
    current_config,   \* magics._current_config: an identity, 0 for None
    registered_callback, \* hooks._registered_callback is set
    last_call         \* the last call of the configuration surface, its outcome

pureVars == <<arg, stage, regions, masked_sql, mapping, restored>>
hookVars == <<raw_cell, entry_cell, pc, sql_contexts, pending, modified_content,
              changes_made, outcomes, returned, next_input, printed, raised,
              shell, memo, pass, prev>>
configVars == <<config_objects, current_config, registered_callback, last_call>>
vars == <<arg, stage, regions, masked_sql, mapping, restored,
          raw_cell, entry_cell, pc, sql_contexts, pending, modified_content,
          changes_made, outcomes, returned, next_input, printed, raised,
          shell, memo, pass, prev,
          config_objects, current_config, registered_callback, last_call>>

----------------------------------------------------------------------------
(* Characters and str primitives *)

NL == "\n"
SP == " "
DQ == "\""
SQ == "'"
TDQ == <<DQ, DQ, DQ>>
TSQ == <<SQ, SQ, SQ>>

\* a failed re match, or a function returning None instead of a dict; a
\* successful one is the one-element sequence of its value
NoMatch == <<>>

\* Python's None (never equal to a str, whose elements are one character long)
None == <<"<None>">>

\* \s of the re module, str.strip() and str.lstrip()
Whitespace == {" ", "\t", "\n", "\r", "\f"}

\* t[a:b]
Slice(t, a, b) == SubSeq(t, a + 1, b)

\* t[i:].startswith(pat)
StartsWithAt(t, i, pat) ==
    /\ i + Len(pat) <= Len(t)
    /\ SubSeq(t, i + 1, i + Len(pat)) = pat

RECURSIVE FindFrom(_, _, _)
\* t.find(pat, i): the least offset >= i where pat occurs, -1 if none
FindFrom(t, pat, i) ==
    IF i + Len(pat) > Len(t) THEN -1
    ELSE IF StartsWithAt(t, i, pat) THEN i
    ELSE FindFrom(t, pat, i + 1)

RECURSIVE SkipWs(_, _)
\* the offset after the greedy \s* that starts at offset i
SkipWs(t, i) ==
    IF i < Len(t) /\ t[i + 1] \in Whitespace THEN SkipWs(t, i + 1) ELSE i

RECURSIVE Concat(_)
Concat(ss) == IF ss = <<>> THEN <<>> ELSE Head(ss) \o Concat(Tail(ss))

----------------------------------------------------------------------------
(* utils.py: the SQL region locator *)

\* the literal head of SQL_MAGIC_PATTERN
MagicHeader == <<"%", "%", "s", "q", "l">>

\* the literal head of SPARK_SQL_PATTERN
SparkSqlName == <<"s", "p", "a", "r", "k", ".", "s", "q", "l">>

\* the alternation ('''|"""|'|") of SPARK_SQL_PATTERN, in its order
QuoteAlternatives == <<TSQ, TDQ, <<SQ>>, <<DQ>>>>

RECURSIVE LastNewlineBefore(_, _, _)
\* the greatest offset k, lo <= k < hi, with t[k] = "\n" and at least one
\* character after it; -1 if none.  This is where the backtracking of the
\* greedy \s* in ^%%sql\s*\n(.+) settles.
LastNewlineBefore(t, lo, hi) ==
    IF hi <= lo THEN -1
    ELSE IF t[hi] = NL /\ hi < Len(t) THEN hi - 1
    ELSE LastNewlineBefore(t, lo, hi - 1)

\* SQL_MAGIC_PATTERN.match(cell_content): the offset where group 1 starts,
\* -1 if the pattern does not match at offset 0
MagicMatch(t) ==
    IF ~StartsWithAt(t, 0, MagicHeader) THEN -1
    ELSE LET runEnd == SkipWs(t, Len(MagicHeader))
             k == LastNewlineBefore(t, Len(MagicHeader), runEnd)
         IN  IF k = -1 THEN -1 ELSE k + 1

\* extract_sql_from_magic: <<region>>, or NoMatch for Python's None
extract_sql_from_magic(t) ==
    LET s == MagicMatch(t)
    IN  IF s = -1 THEN NoMatch
        ELSE <<[sql |-> Slice(t, s, Len(t)), start |-> s, end |-> Len(t),
                is_fstring |-> FALSE, quote_style |-> <<>>, type |-> "magic"]>>

RECURSIVE QuoteMatch(_, _, _)
\* (alternative, offset of the closing delimiter) for the first alternative,
\* from the k-th on, that opens at offset qs and closes after at least one
\* character of lazy content (.+?)\2; <<0, -1>> if none does
QuoteMatch(t, qs, k) ==
    IF k > Len(QuoteAlternatives) THEN <<0, -1>>
    ELSE LET d == QuoteAlternatives[k]
             e == IF StartsWithAt(t, qs, d)
                  THEN FindFrom(t, d, qs + Len(d) + 1) ELSE -1
         IN  IF e # -1 THEN <<k, e>> ELSE QuoteMatch(t, qs, k + 1)

\* a plausible slip: the span starts at the opening delimiter even when the
\* template prefix is there
FullStringStartAtQuote(hasF, start1, start2) == start2

\* full_string_start: match.start(1) with the f prefix, else match.start(2)
FullStringStart(hasF, start1, start2) == IF hasF THEN start1 ELSE start2

\* SPARK_SQL_PATTERN matched at offset p, as extract_spark_sql_calls records
\* it (a one-element sequence); NoMatch if it does not match there
SparkMatchAt(t, p) ==
    IF ~StartsWithAt(t, p, SparkSqlName) THEN NoMatch
    ELSE LET paren == SkipWs(t, p + Len(SparkSqlName))
         IN  IF ~StartsWithAt(t, paren, <<"(">>) THEN NoMatch
             ELSE LET g1 == SkipWs(t, paren + 1)
                      hasF == StartsWithAt(t, g1, <<"f">>)
                      qs == IF hasF THEN g1 + 1 ELSE g1
                      qm == QuoteMatch(t, qs, 1)
                  IN  IF qm[2] = -1 THEN NoMatch
                      ELSE LET d == QuoteAlternatives[qm[1]]
                           IN  <<[sql |-> Slice(t, qs + Len(d), qm[2]),
                                  start |-> FullStringStart(hasF, g1, qs),
                                  end |-> qm[2] + Len(d),
                                  is_fstring |-> hasF,
                                  quote_style |-> d,
                                  type |-> "spark_sql"]>>

RECURSIVE FindIter(_, _)
\* SPARK_SQL_PATTERN.finditer(cell_content) from offset p on
FindIter(t, p) ==
    IF p >= Len(t) THEN <<>>
    ELSE LET m == SparkMatchAt(t, p)
         IN  IF m = NoMatch THEN FindIter(t, p + 1)
             ELSE m \o FindIter(t, m[1].end)

\* extract_spark_sql_calls
extract_spark_sql_calls(t) == FindIter(t, 0)

\* find_sql_to_format
find_sql_to_format(t) ==
    LET magic_result == extract_sql_from_magic(t)
    IN  IF magic_result # NoMatch THEN magic_result
        ELSE extract_spark_sql_calls(t)

----------------------------------------------------------------------------
(* formatter.py: the interpolation masker *)

DigitChars == <<"0", "1", "2", "3", "4", "5", "6", "7", "8", "9">>

RECURSIVE Decimal(_)
\* "{}".format(n) for an int n >= 0
Decimal(n) ==
    IF n < 10 THEN <<DigitChars[n + 1]>>
    ELSE Decimal(n \div 10) \o <<DigitChars[(n % 10) + 1]>>

\* a plausible slip: the counter is left out of the placeholder
MaskPlaceholderSame(counter) ==
    <<"_", "_", "M", "A", "S", "K", "_">> \o Decimal(0) \o <<"_">>

\* MASK_PATTERN.format(counter), MASK_PATTERN = "__MASK_{}_"
MaskPlaceholder(counter) ==
    <<"_", "_", "M", "A", "S", "K", "_">> \o Decimal(counter) \o <<"_">>

RECURSIVE SkipNonBrace(_, _)
\* the offset after the greedy [^{}]* that starts at offset i
SkipNonBrace(t, i) ==
    IF i < Len(t) /\ t[i + 1] \notin {"{", "}"} THEN SkipNonBrace(t, i + 1) ELSE i

\* r'\{([^{}]+)\}' matched at offset p: the offset after the match, -1 if none
InterpolationEnd(t, p) ==
    IF ~StartsWithAt(t, p, <<"{">>) THEN -1
    ELSE LET r == SkipNonBrace(t, p + 1)
         IN  IF r > p + 1 /\ StartsWithAt(t, r, <<"}">>) THEN r + 1 ELSE -1

RECURSIVE MaskFrom(_, _, _)
\* re.sub(pattern, replace_func, sql) from offset p on, with the counter's value
MaskFrom(t, p, counter) ==
    IF p >= Len(t) THEN [masked |-> <<>>, mapping |-> <<>>]
    ELSE LET e == InterpolationEnd(t, p)
         IN  IF e = -1
             THEN LET rest == MaskFrom(t, p + 1, counter)
                  IN  [masked |-> <<t[p + 1]>> \o rest.masked,
                       mapping |-> rest.mapping]
             ELSE LET rest == MaskFrom(t, e, counter + 1)
                      placeholder == MaskPlaceholder(counter)
                  IN  [masked |-> placeholder \o rest.masked,
                       mapping |-> <<[placeholder |-> placeholder,
                                      original |-> Slice(t, p, e)]>>
                                   \o rest.mapping]

\* mask_interpolations: the masked text and the mapping, a dict in insertion
\* order (its keys are distinct: the counter only grows)
mask_interpolations(sql) == MaskFrom(sql, 0, 0)

RECURSIVE Replace(_, _, _)
\* s.replace(old, new), old not empty
Replace(s, old, new) ==
    IF Len(s) < Len(old) THEN s
    ELSE IF StartsWithAt(s, 0, old)
         THEN new \o Replace(SubSeq(s, Len(old) + 1, Len(s)), old, new)
         ELSE <<Head(s)>> \o Replace(Tail(s), old, new)

RECURSIVE unmask_interpolations(_, _)
\* unmask_interpolations: one str.replace per entry, in the mapping's order
unmask_interpolations(sql, m) ==
    IF m = <<>> THEN sql
    ELSE unmask_interpolations(
             Replace(sql, m[1].placeholder, m[1].original), Tail(m))

----------------------------------------------------------------------------
(* magics.py: SQLGlotConfig and the process-wide current configuration *)

\* SQLGlotConfig(dialect=..., indent=...) before validation; the other
\* fields keep their defaults
SQLGlotConfig(dialect, indent) ==
    [dialect |-> dialect, indent |-> indent, uppercase |-> TRUE,
     pretty |-> TRUE, debug |-> FALSE]

\* SQLGlotConfig()
DefaultConfig == SQLGlotConfig("spark", 4)

\* valid_dialects
valid_dialects == {"spark", "spark2", "databricks"}

\* validate raises ValueError
ValidateRaises(config) == config.indent < 0

\* validate logs the dialect warning (after the indent check passed)
ValidateWarns(config) ==
    ~ValidateRaises(config) /\ config.dialect \notin valid_dialects

\* no call of the configuration surface yet
NoCall == [op |-> "none", raised |-> "no", warned |-> FALSE,
           dialect |-> "", indent |-> 0, config |-> 0, before |-> 0]

\* the record of a call: its name, what it raised, whether validate warned,
\* the dialect and indent it validated, the instance it was given or made
\* (0 for none), and _current_config before it
Call(op, exc, warning, d, n, o) ==
    [op |-> op, raised |-> exc, warned |-> warning, dialect |-> d,
     indent |-> n, config |-> o, before |-> current_config]

\* get_config: _current_config after the call, and the instances alive
get_config(objects, current) ==
    IF current = 0
    THEN [objects |-> Append(objects, DefaultConfig),
          current |-> Len(objects) + 1]
    ELSE [objects |-> objects, current |-> current]

\* nothing constructed, nothing installed, no hook registered
ConfigIdle ==
    /\ config_objects = <<>>
    /\ current_config = 0
    /\ registered_callback = FALSE
    /\ last_call = NoCall

----------------------------------------------------------------------------
(* Inputs of the pure functions *)

\* how many fragments a text given to the locator is made of
MaxLocatePieces == 4

\* how many fragments a text given to the masker is made of
MaxMaskPieces == 3

SparkCallOpen == SparkSqlName \o <<"(">>

LocateFragments ==
    { MagicHeader, <<NL>>, SparkCallOpen, <<"f">>, <<DQ>>, <<SQ>>, TSQ, <<"a">>,
      SparkCallOpen \o <<DQ, "a", DQ, ")">>,
      SparkCallOpen \o <<"f">> \o TSQ \o <<"a">> \o TSQ \o <<")">> }

MaskFragments ==
    { <<"_", "_", "M", "A", "S", "K", "_">>, <<"_", "M", "A", "S", "K", "_">>,
      <<"_">>, <<"0">>, <<"1">>, <<"{", "a", "}">>, <<"{", "b", "}">>,
      <<"{">>, <<"}">> }

\* the concatenations of at most n fragments
TextsOf(fragments, n) ==
    { Concat(ps) : ps \in UNION { [1..k -> fragments] : k \in 0..n } }

LocateTexts == TextsOf(LocateFragments, MaxLocatePieces)

MaskTexts == TextsOf(MaskFragments, MaxMaskPieces)

----------------------------------------------------------------------------
(* The pure functions applied to a drawn text *)

\* before any execution of the cell
NoPrevious == [entry |-> <<>>, contexts |-> <<>>, outcomes |-> <<>>,
               returned |-> None]

HookIdle ==
    /\ raw_cell = <<>>
    /\ entry_cell = <<>>
    /\ pc = "idle"
    /\ sql_contexts = <<>>
    /\ pending = <<>>
    /\ modified_content = <<>>
    /\ changes_made = FALSE
    /\ outcomes = <<>>
    /\ returned = None
    /\ next_input = None
    /\ printed = FALSE
    /\ raised = "no"
    /\ shell = FALSE
    /\ memo = {}
    /\ pass = "first"
    /\ prev = NoPrevious
    /\ ConfigIdle

PureStart(texts) ==
    /\ arg \in texts
    /\ stage = "start"
    /\ regions = <<>>
    /\ masked_sql = <<>>
    /\ mapping = <<>>
    /\ restored = <<>>

InitLocate == PureStart(LocateTexts) /\ HookIdle

InitMask == PureStart(MaskTexts) /\ HookIdle

\* find_sql_to_format(arg)
Locate ==
    /\ stage = "start"
    /\ regions' = find_sql_to_format(arg)
    /\ stage' = "located"
    /\ UNCHANGED <<arg, masked_sql, mapping, restored>>
    /\ UNCHANGED hookVars
    /\ UNCHANGED configVars

\* masked_sql, mapping = mask_interpolations(arg)
Mask ==
    /\ stage = "start"
    /\ LET r == mask_interpolations(arg)
       IN  /\ masked_sql' = r.masked
           /\ mapping' = r.mapping
    /\ stage' = "masked"
    /\ UNCHANGED <<arg, regions, restored>>
    /\ UNCHANGED hookVars
    /\ UNCHANGED configVars

\* unmask_interpolations(masked_sql, mapping)
Unmask ==
    /\ stage = "masked"
    /\ restored' = unmask_interpolations(masked_sql, mapping)
    /\ stage' = "unmasked"
    /\ UNCHANGED <<arg, regions, masked_sql, mapping>>
    /\ UNCHANGED hookVars
    /\ UNCHANGED configVars

NextLocate == Locate

NextMask == Mask \/ Unmask

SpecLocate == InitLocate /\ [][NextLocate]_vars

SpecMask == InitMask /\ [][NextMask]_vars

----------------------------------------------------------------------------
(* formatter.py: the format orchestrator *)

RECURSIVE Join(_, _)
\* sep.join(parts)
Join(parts, sep) ==
    IF parts = <<>> THEN <<>>
    ELSE IF Len(parts) = 1 THEN parts[1]
    ELSE parts[1] \o sep \o Join(Tail(parts), sep)

RECURSIVE Split(_, _)
\* s.split(c) for a one-character separator c
Split(s, c) ==
    LET k == FindFrom(s, <<c>>, 0)
    IN  IF k = -1 THEN <<s>>
        ELSE <<Slice(s, 0, k)>> \o Split(Slice(s, k + 1, Len(s)), c)

RECURSIVE LStrip(_)
\* s.lstrip()
LStrip(s) == IF s # <<>> /\ Head(s) \in Whitespace THEN LStrip(Tail(s)) ELSE s

RECURSIVE RStrip(_)
\* s.rstrip()
RStrip(s) ==
    IF s # <<>> /\ s[Len(s)] \in Whitespace
    THEN RStrip(SubSeq(s, 1, Len(s) - 1)) ELSE s

\* s.strip()
Strip(s) == RStrip(LStrip(s))

\* One normal form the external engine may answer with: the statement without
\* the white space around it, its lower-case words in upper case.
EngineUpper(c) == CASE c = "a" -> "A" [] c = "b" -> "B" [] OTHER -> c

EngineNormalize(sql) == LET t == Strip(sql) IN [i \in 1..Len(t) |-> EngineUpper(t[i])]

\* What sqlglot.transpile(sql, **kwargs) may do: raise ParseError, raise
\* another exception, or return a list of statements (none, the statement in
\* normal form, two statements, one empty statement).
EngineAnswers(sql) ==
    { [raises |-> "ParseError", statements |-> <<>>],
      [raises |-> "Exception", statements |-> <<>>],
      [raises |-> "no", statements |-> <<>>],
      [raises |-> "no", statements |-> <<EngineNormalize(sql)>>],
      [raises |-> "no", statements |-> << <<"X">>, <<"Y", SP, "Z">> >>],
      [raises |-> "no", statements |-> << <<>> >>] }

\* format_sql, given what sqlglot.transpile did
format_sql(sql, answer) ==
    IF answer.raises # "no" THEN None
    ELSE IF answer.statements = <<>> THEN None
    ELSE Join(answer.statements, <<NL, NL>>)

\* format_sql_string, given what sqlglot.transpile did with the masked text
format_sql_string(sql_content, is_fstring, answer) ==
    LET m == IF is_fstring THEN mask_interpolations(sql_content)
             ELSE [masked |-> sql_content, mapping |-> <<>>]
        formatted_sql == format_sql(m.masked, answer)
    IN  IF formatted_sql = None THEN None
        ELSE IF m.mapping # <<>>
             THEN unmask_interpolations(formatted_sql, m.mapping)
             ELSE formatted_sql

\* the text format_sql_string hands to format_sql
MaskedText(sql_content, is_fstring) ==
    IF is_fstring THEN mask_interpolations(sql_content).masked ELSE sql_content

----------------------------------------------------------------------------
(* hooks.py: format_cell_content, the region splicer *)

\* a plausible slip: the regions are visited in the locator's order
forward(s) == s

RECURSIVE reversed(_)
\* reversed(sql_contexts)
reversed(s) == IF s = <<>> THEN <<>> ELSE reversed(Tail(s)) \o <<Head(s)>>

Spaces(n) == [i \in 1..n |-> SP]

\* a plausible slip: the indentation of the line is not carried over
BaseIndentNone(content, start_pos) == <<>>

\* base_indent: as many spaces as the line the region starts on has leading
\* white space
BaseIndent(content, start_pos) ==
    LET lines_before == Split(Slice(content, 0, start_pos), NL)
        last_line == lines_before[Len(lines_before)]
    IN  Spaces(Len(last_line) - Len(LStrip(last_line)))

\* indented_sql
IndentedSql(formatted_sql, base_indent) ==
    LET sql_lines == Split(formatted_sql, NL)
    IN  Join([i \in 1..Len(sql_lines) |->
                 IF Strip(sql_lines[i]) # <<>>
                 THEN base_indent \o Spaces(4) \o sql_lines[i]
                 ELSE <<>>],
             <<NL>>)

\* formatted_string
FormattedString(context, formatted_sql, base_indent) ==
    LET prefix == IF context.is_fstring THEN <<"f">> ELSE <<>>
        quote_style == context.quote_style
    IN  IF quote_style \in {TDQ, TSQ}
        THEN prefix \o quote_style \o <<NL>>
             \o IndentedSql(formatted_sql, base_indent)
             \o <<NL>> \o base_indent \o quote_style
        ELSE prefix \o quote_style \o formatted_sql \o quote_style

\* modified_content[:start_pos] + formatted_string + modified_content[end_pos:]
SpliceInto(content, start_pos, end_pos, formatted_string) ==
    Slice(content, 0, start_pos) \o formatted_string
    \o Slice(content, end_pos, Len(content))

\* a plausible slip: "break" for "continue"
AfterFailureBreak(rest) == <<>>

\* the regions the loop goes on with after a region failed ("continue")
AfterFailure(rest) == rest

\* a plausible slip: the text is returned whether or not it changed
FormatCellResultAlways(changes, content) == content

\* what format_cell_content returns after the loop
FormatCellResult(changes, content) == IF changes THEN content ELSE None

RECURSIVE SplitWords(_)
\* s.split(): the maximal runs of characters that are not white space
SplitWords(s) ==
    LET t == LStrip(s)
        k == CHOOSE j \in 1..(Len(t) + 1) :
                 /\ j = Len(t) + 1 \/ t[j] \in Whitespace
                 /\ \A i \in 1..(j - 1) : t[i] \notin Whitespace
    IN  IF t = <<>> THEN <<>>
        ELSE <<SubSeq(t, 1, k - 1)>> \o SplitWords(SubSeq(t, k, Len(t)))

\* " ".join(s.split()), the normalisation should_format computes
Normalized(s) == Join(SplitWords(s), <<SP>>)

\* should_format: the normalised texts are computed and not used
should_format(original, formatted) == original # formatted

\* a plausible slip: the texts are compared after normalising white space
NoChangesNeededNormalized(formatted_sql, sql_content) ==
    Normalized(formatted_sql) = Normalized(sql_content)

\* "if formatted_sql == sql_content: continue"
NoChangesNeeded(formatted_sql, sql_content) == formatted_sql = sql_content

\* format_cell_content, up to the loop
FormatCellStart ==
    /\ pc = "locate"
    /\ LET found == find_sql_to_format(raw_cell)
       IN  /\ sql_contexts' = found
           /\ IF found = <<>>
              THEN /\ returned' = None
                   /\ pc' = "returned"
                   /\ UNCHANGED <<pending, modified_content, changes_made>>
              ELSE /\ pending' = reversed(found)
                   /\ modified_content' = raw_cell
                   /\ changes_made' = FALSE
                   /\ pc' = "loop"
                   /\ UNCHANGED returned
    /\ outcomes' = <<>>
    /\ UNCHANGED <<raw_cell, entry_cell, next_input, printed, raised, shell,
                   memo, pass, prev>>
    /\ UNCHANGED pureVars
    /\ UNCHANGED configVars

\* one iteration of "for context in reversed(sql_contexts)"
FormatRegion ==
    /\ pc = "loop"
    /\ pending # <<>>
    /\ LET context == Head(pending)
           masked == MaskedText(context.sql, context.is_fstring)
       IN  \E answer \in EngineAnswers(masked) :
             LET formatted_sql ==
                     format_sql_string(context.sql, context.is_fstring, answer)
                 base_indent == BaseIndent(modified_content, context.start)
                 formatted_string ==
                     FormattedString(context, formatted_sql, base_indent)
             IN  /\ memo' = memo \cup {<<masked, format_sql(masked, answer)>>}
                 /\ IF formatted_sql = None
                    THEN /\ pending' = AfterFailure(Tail(pending))
                         /\ outcomes' = Append(outcomes,
                               [context |-> context, status |-> "Failed",
                                formatted_sql |-> None, formatted_string |-> None])
                         /\ UNCHANGED <<modified_content, changes_made>>
                    ELSE IF NoChangesNeeded(formatted_sql, context.sql)
                    THEN /\ pending' = Tail(pending)
                         /\ outcomes' = Append(outcomes,
                               [context |-> context, status |-> "Unchanged",
                                formatted_sql |-> formatted_sql,
                                formatted_string |-> None])
                         /\ UNCHANGED <<modified_content, changes_made>>
                    ELSE /\ pending' = Tail(pending)
                         /\ modified_content' =
                               SpliceInto(modified_content, context.start,
                                          context.end, formatted_string)
                         /\ changes_made' = TRUE
                         /\ outcomes' = Append(outcomes,
                               [context |-> context, status |-> "Formatted",
                                formatted_sql |-> formatted_sql,
                                formatted_string |-> formatted_string])
    /\ UNCHANGED <<raw_cell, entry_cell, pc, sql_contexts, returned, next_input,
                   printed, raised, shell, pass, prev>>
    /\ UNCHANGED pureVars
    /\ UNCHANGED configVars

\* format_cell_content, after the loop
FormatCellReturn ==
    /\ pc = "loop"
    /\ pending = <<>>
    /\ returned' = FormatCellResult(changes_made, modified_content)
    /\ pc' = "returned"
    /\ UNCHANGED <<raw_cell, entry_cell, sql_contexts, pending, modified_content,
                   changes_made, outcomes, next_input, printed, raised, shell,
                   memo, pass, prev>>
    /\ UNCHANGED pureVars
    /\ UNCHANGED configVars

----------------------------------------------------------------------------
(* hooks.py: pre_run_cell_hook *)

\* "not cell_content or not cell_content.strip()"
IsBlank(cell_content) == cell_content = <<>> \/ Strip(cell_content) = <<>>

\* the hook is called with info: "config = get_config()", then blank cells
\* return at once
HookEnter ==
    /\ pc = "idle"
    /\ entry_cell' = raw_cell
    /\ pc' = IF IsBlank(raw_cell) THEN "done" ELSE "locate"
    /\ LET g == get_config(config_objects, current_config)
       IN  /\ config_objects' = g.objects
           /\ current_config' = g.current
           /\ last_call' = Call("get_config", "no", FALSE, "", 0, g.current)
    /\ UNCHANGED <<raw_cell, sql_contexts, pending, modified_content,
                   changes_made, outcomes, returned, next_input, printed,
                   raised, shell, memo, pass, prev, registered_callback>>
    /\ UNCHANGED pureVars

\* "if formatted_content is None: return"
HookNoChange ==
    /\ pc = "returned"
    /\ returned = None
    /\ pc' = "done"
    /\ UNCHANGED <<raw_cell, entry_cell, sql_contexts, pending, modified_content,
                   changes_made, outcomes, returned, next_input, printed, raised,
                   shell, memo, pass, prev>>
    /\ UNCHANGED pureVars
    /\ UNCHANGED configVars

\* "info.raw_cell = formatted_content"
HookAssign ==
    /\ pc = "returned"
    /\ returned # None
    /\ raw_cell' = returned
    /\ pc' = "display"
    /\ UNCHANGED <<entry_cell, sql_contexts, pending, modified_content,
                   changes_made, outcomes, returned, next_input, printed, raised,
                   shell, memo, pass, prev>>
    /\ UNCHANGED pureVars
    /\ UNCHANGED configVars

\* "if _shell: _shell.set_next_input(formatted_content, replace=True)"
HookDisplay ==
    /\ pc = "display"
    /\ next_input' = IF shell THEN returned ELSE next_input
    /\ pc' = "done"
    /\ UNCHANGED <<raw_cell, entry_cell, sql_contexts, pending, modified_content,
                   changes_made, outcomes, returned, printed, raised, shell,
                   memo, pass, prev>>
    /\ UNCHANGED pureVars
    /\ UNCHANGED configVars

\* An exception that is not a region's parse failure, raised inside the try
\* block: by find_sql_to_format, by an iteration of the loop (masking,
\* splicing), or by _shell.set_next_input.  "except Exception" logs it,
\* prints it and the hook returns.
HookRaise ==
    /\ pc \in {"locate", "loop", "display"}
    /\ pc = "display" => shell
    /\ raised' = pc
    /\ printed' = TRUE
    /\ pc' = "done"
    /\ UNCHANGED <<raw_cell, entry_cell, sql_contexts, pending, modified_content,
                   changes_made, outcomes, returned, next_input, shell, memo,
                   pass, prev>>
    /\ UNCHANGED pureVars
    /\ UNCHANGED configVars

\* The cell is executed a second time; the front end holds the text given to
\* set_next_input, or else the text the user typed.
Rerun ==
    /\ pc = "done"
    /\ pass = "first"
    /\ pass' = "second"
    /\ prev' = [entry |-> entry_cell, contexts |-> sql_contexts,
                outcomes |-> outcomes, returned |-> returned]
    /\ raw_cell' = IF next_input # None THEN next_input ELSE entry_cell
    /\ entry_cell' = <<>>
    /\ pc' = "idle"
    /\ sql_contexts' = <<>>
    /\ pending' = <<>>
    /\ modified_content' = <<>>
    /\ changes_made' = FALSE
    /\ outcomes' = <<>>
    /\ returned' = None
    /\ next_input' = None
    /\ printed' = FALSE
    /\ raised' = "no"
    /\ UNCHANGED <<shell, memo>>
    /\ UNCHANGED pureVars
    /\ UNCHANGED configVars

----------------------------------------------------------------------------
(* The configuration surface: magics.py, register_hooks, __init__.py *)

\* how many SQLGlotConfig instances are alive at once
MaxConfigObjects == 2

ConfigDialects == {"spark", "mysql"}

ConfigIndents == {-1, 0, 4}

\* set_config(config): what validate does and _current_config after the call
set_config(objects, current, o) ==
    IF ValidateRaises(objects[o])
    THEN [raised |-> "ValueError", warned |-> FALSE, current |-> current]
    ELSE [raised |-> "no", warned |-> ValidateWarns(objects[o]), current |-> o]

\* what the configuration surface leaves alone
UnchangedByConfig ==
    /\ UNCHANGED <<raw_cell, entry_cell, pc, sql_contexts, pending,
                   modified_content, changes_made, outcomes, returned,
                   next_input, printed, raised, memo, pass, prev>>
    /\ UNCHANGED pureVars

\* client code: SQLGlotConfig(dialect=d, indent=n); __post_init__ validates
NewConfig ==
    /\ Len(config_objects) < MaxConfigObjects
    /\ \E d \in ConfigDialects, n \in ConfigIndents :
         LET config == SQLGlotConfig(d, n)
         IN  IF ValidateRaises(config)
             THEN /\ last_call' = Call("SQLGlotConfig", "ValueError", FALSE, d, n, 0)
                  /\ UNCHANGED config_objects
             ELSE /\ config_objects' = Append(config_objects, config)
                  /\ last_call' = Call("SQLGlotConfig", "no", ValidateWarns(config),
                                       d, n, Len(config_objects) + 1)
    /\ UNCHANGED <<current_config, registered_callback, shell>>
    /\ UnchangedByConfig

\* client code: config.indent = n (the dataclass is not frozen and nothing
\* validates an assignment)
AssignIndent ==
    /\ \E o \in 1..Len(config_objects), n \in ConfigIndents :
         /\ config_objects' = [config_objects EXCEPT ![o].indent = n]
         /\ last_call' = Call("config.indent =", "no", FALSE,
                              config_objects[o].dialect, n, o)
    /\ UNCHANGED <<current_config, registered_callback, shell>>
    /\ UnchangedByConfig

\* set_config(config)
SetConfig ==
    /\ \E o \in 1..Len(config_objects) :
         LET r == set_config(config_objects, current_config, o)
         IN  /\ current_config' = r.current
             /\ last_call' = Call("set_config", r.raised, r.warned,
                                  config_objects[o].dialect,
                                  config_objects[o].indent, o)
    /\ UNCHANGED <<config_objects, registered_callback, shell>>
    /\ UnchangedByConfig

\* get_config()
GetConfig ==
    /\ current_config = 0 => Len(config_objects) < MaxConfigObjects
    /\ LET g == get_config(config_objects, current_config)
       IN  /\ config_objects' = g.objects
           /\ current_config' = g.current
           /\ last_call' = Call("get_config", "no", FALSE, "", 0, g.current)
    /\ UNCHANGED <<registered_callback, shell>>
    /\ UnchangedByConfig

\* register_hooks(ipython, config): _shell is set before set_config may raise
RegisterHooks ==
    /\ \E o \in 1..Len(config_objects) :
         LET r == set_config(config_objects, current_config, o)
         IN  /\ shell' = TRUE
             /\ current_config' = r.current
             /\ registered_callback' =
                    IF r.raised = "no" THEN TRUE ELSE registered_callback
             /\ last_call' = Call("register_hooks", r.raised, r.warned,
                                  config_objects[o].dialect,
                                  config_objects[o].indent, o)
    /\ UNCHANGED config_objects
    /\ UnchangedByConfig

\* load_ipython_extension(ipython): register_hooks(ipython, SQLGlotConfig())
LoadExtension ==
    /\ Len(config_objects) < MaxConfigObjects
    /\ LET objects == Append(config_objects, DefaultConfig)
           r == set_config(objects, current_config, Len(objects))
       IN  /\ config_objects' = objects
           /\ shell' = TRUE
           /\ current_config' = r.current
           /\ registered_callback' =
                  IF r.raised = "no" THEN TRUE ELSE registered_callback
           /\ last_call' = Call("load_ipython_extension", r.raised, r.warned,
                                DefaultConfig.dialect, DefaultConfig.indent,
                                Len(objects))
    /\ UnchangedByConfig

\* init(dialect=d, indent=n): RuntimeError outside IPython, ValueError from
\* the construction, else register_hooks(ipython, config)
InitExtension ==
    /\ Len(config_objects) < MaxConfigObjects
    /\ \E d \in ConfigDialects, n \in ConfigIndents, ipython \in BOOLEAN :
         LET config == SQLGlotConfig(d, n)
             objects == Append(config_objects, config)
             r == set_config(objects, current_config, Len(objects))
         IN  IF ~ipython
             THEN /\ last_call' = Call("init", "RuntimeError", FALSE, d, n, 0)
                  /\ UNCHANGED <<config_objects, current_config,
                                 registered_callback, shell>>
             ELSE IF ValidateRaises(config)
             THEN /\ last_call' = Call("init", "ValueError", FALSE, d, n, 0)
                  /\ UNCHANGED <<config_objects, current_config,
                                 registered_callback, shell>>
             ELSE /\ config_objects' = objects
                  /\ shell' = TRUE
                  /\ current_config' = r.current
                  /\ registered_callback' =
                         IF r.raised = "no" THEN TRUE ELSE registered_callback
                  /\ last_call' = Call("init", r.raised,
                                       ValidateWarns(config), d, n, Len(objects))
    /\ UnchangedByConfig

\* unregister_hooks(ipython): the current configuration stays
UnregisterHooks ==
    /\ registered_callback
    /\ registered_callback' = FALSE
    /\ shell' = FALSE
    /\ last_call' = Call("unregister_hooks", "no", FALSE, "", 0, 0)
    /\ UNCHANGED <<config_objects, current_config>>
    /\ UnchangedByConfig

InitConfig == PureStart({<<>>}) /\ HookIdle

NextConfig ==
    \/ NewConfig
    \/ AssignIndent
    \/ SetConfig
    \/ GetConfig
    \/ RegisterHooks
    \/ LoadExtension
    \/ InitExtension
    \/ UnregisterHooks

\* any sequence of calls of the configuration surface
SpecConfig == InitConfig /\ [][NextConfig]_vars

----------------------------------------------------------------------------
(* Cells *)

\* how many fragments a cell is made of
MaxCellPieces == 3

\* how many fragments a cell that is executed twice is made of
MaxRerunPieces == 2

CellFragments ==
    { SparkCallOpen \o <<DQ, "a", DQ, ")">>,
      <<SP, SP>> \o SparkCallOpen
          \o <<"f">> \o TSQ \o <<"a", SP, "{", "t", "}">> \o TSQ \o <<")">>,
      SparkCallOpen \o <<SQ, "A", SQ, ")">>,
      <<NL>>,
      MagicHeader \o <<NL>>,
      <<"a">>,
      <<"\t">> }

Cells == TextsOf(CellFragments, MaxCellPieces)

\* the hook is about to run: after load_ipython_extension (the shell and the
\* default configuration are set), or called with nothing registered
HookStart(cells) ==
    /\ raw_cell \in cells
    /\ shell \in BOOLEAN
    /\ registered_callback = shell
    /\ config_objects = IF shell THEN <<DefaultConfig>> ELSE <<>>
    /\ current_config = IF shell THEN 1 ELSE 0
    /\ last_call = NoCall
    /\ entry_cell = <<>>
    /\ pc = "idle"
    /\ sql_contexts = <<>>
    /\ pending = <<>>
    /\ modified_content = <<>>
    /\ changes_made = FALSE
    /\ outcomes = <<>>
    /\ returned = None
    /\ next_input = None
    /\ printed = FALSE
    /\ raised = "no"
    /\ memo = {}
    /\ pass = "first"
    /\ prev = NoPrevious
    /\ arg = <<>>
    /\ stage = "idle"
    /\ regions = <<>>
    /\ masked_sql = <<>>
    /\ mapping = <<>>
    /\ restored = <<>>

Init == HookStart(Cells)

InitRerun == HookStart(TextsOf(CellFragments, MaxRerunPieces))

Next ==
    \/ HookEnter
    \/ FormatCellStart
    \/ FormatRegion
    \/ FormatCellReturn
    \/ HookNoChange
    \/ HookAssign
    \/ HookDisplay
    \/ HookRaise

NextRerun == Next \/ Rerun

\* one execution of a cell
Spec == Init /\ [][Next]_vars

\* a cell executed twice
SpecRerun == InitRerun /\ [][NextRerun]_vars

----------------------------------------------------------------------------
(* Properties of one execution of a cell (Spec) *)

\* the outcomes, as a set
Outcomes == { outcomes[i] : i \in 1..Len(outcomes) }

Formatted == { o \in Outcomes : o.status = "Formatted" }

\* the original text of a region
OriginalSpan(c) == Slice(entry_cell, c.start, c.end)

RECURSIVE Sum(_, _)
Sum(f, S) ==
    IF S = {} THEN 0 ELSE LET x == CHOOSE y \in S : TRUE IN f[x] + Sum(f, S \ {x})

\* by how much the replacements to the left of offset pos moved it
ShiftAt(pos) ==
    LET left == { o \in Formatted : o.context.start < pos }
    IN  Sum([o \in left |->
                Len(o.formatted_string) - (o.context.end - o.context.start)],
            left)

\* the text the cell holds once format_cell_content has returned
TextAfterPass == IF returned = None THEN entry_cell ELSE returned

\* C1: once format_cell_content has returned, the span of every region whose
\* format call failed holds its original text, byte for byte, in the text
\* returned; and a failure stopped nothing: every located region was visited,
\* and every region that got a formatted text holds its replacement.
C1_FailedRegionUntouched ==
    pc = "returned" =>
        \A o \in Outcomes :
            o.status = "Failed" =>
                /\ Slice(TextAfterPass, o.context.start + ShiftAt(o.context.start),
                         o.context.end + ShiftAt(o.context.start))
                       = OriginalSpan(o.context)
                /\ \A k \in 1..Len(sql_contexts) :
                       \E p \in Outcomes : p.context = sql_contexts[k]
                /\ \A p \in Formatted :
                       Slice(TextAfterPass,
                             p.context.start + ShiftAt(p.context.start),
                             p.context.start + ShiftAt(p.context.start)
                                 + Len(p.formatted_string))
                           = p.formatted_string

\* a region failed first (the rightmost), one failed between two others, and
\* the regions visited after it were still replaced
C1_Witness ==
    /\ pc = "returned"
    /\ Len(outcomes) = 3
    /\ outcomes[1].status = "Formatted"
    /\ outcomes[2].status = "Failed"
    /\ outcomes[3].status = "Formatted"
    /\ Len(outcomes[3].formatted_string)
           # outcomes[3].context.end - outcomes[3].context.start

\* C2: when an exception was raised inside the hook, the hook has printed the
\* error and info.raw_cell is the text it held when the hook was entered.
C2_RawCellKeptOnError ==
    (pc = "done" /\ raised # "no") => (printed /\ raw_cell = entry_cell)

RECURSIVE Rebuilt(_, _)
\* the original text with the span of each region that got a formatted text
\* replaced by its replacement, left to right from offset pos
Rebuilt(contexts, pos) ==
    IF contexts = <<>> THEN Slice(entry_cell, pos, Len(entry_cell))
    ELSE LET c == Head(contexts)
             hit == { o \in Formatted : o.context = c }
             piece == IF hit = {} THEN OriginalSpan(c)
                      ELSE (CHOOSE o \in hit : TRUE).formatted_string
         IN  Slice(entry_cell, pos, c.start) \o piece \o Rebuilt(Tail(contexts), c.end)

\* C3: the regions are visited rightmost first; while regions are still to
\* be visited, the working text up to the end of each of them is the original
\* text up to there (so its offsets still delimit its literal); and the text
\* returned is the original with exactly the replaced spans substituted,
\* everything else kept in order.
C3_OffsetsStayValid ==
    /\ pc = "loop" =>
           \A i \in 1..Len(pending) :
               /\ Slice(modified_content, 0, pending[i].end)
                      = Slice(entry_cell, 0, pending[i].end)
               /\ \A j \in 1..Len(pending) :
                      i < j => pending[i].start > pending[j].start
    /\ (pc = "returned" /\ returned # None) =>
           returned = Rebuilt(sql_contexts, 0)

\* two regions were replaced by texts of another length, the right one first
C3_Witness ==
    /\ pc = "returned"
    /\ Len(outcomes) >= 2
    /\ outcomes[1].context.start > outcomes[2].context.start
    /\ \A i \in 1..2 :
           /\ outcomes[i].status = "Formatted"
           /\ Len(outcomes[i].formatted_string)
                  # outcomes[i].context.end - outcomes[i].context.start

\* C4: format_cell_content returns None exactly when no region got a
\* formatted text (and then never a str, empty or not); and the hook, given
\* None, neither replaces info.raw_cell nor calls set_next_input.
C4_NoChangeSentinel ==
    /\ pc = "returned" => (returned = None <=> Formatted = {})
    /\ pc = "display" => returned # None
    /\ (pc \in {"returned", "done"} /\ returned = None) =>
           (raw_cell = entry_cell /\ next_input = None)

\* regions were located, one failed and one came back identical: the hook
\* is done and nothing was replaced
C4_Witness ==
    /\ pc = "done"
    /\ raised = "no"
    /\ returned = None
    /\ \E o \in Outcomes : o.status = "Failed"
    /\ \E o \in Outcomes : o.status = "Unchanged"

----------------------------------------------------------------------------
(* Properties of a cell executed twice (SpecRerun) *)

\* the second execution runs on the text the first one produced
SecondPassOnResult ==
    /\ pass = "second"
    /\ prev.returned # None
    /\ entry_cell = prev.returned

\* every region of the first execution got a formatted text, not an empty
\* one, or was unchanged
FirstPassSucceeded ==
    \A i \in 1..Len(prev.outcomes) :
        /\ prev.outcomes[i].status # "Failed"
        /\ prev.outcomes[i].formatted_sql # <<>>

\* the answers of the external formatter so far are those of an idempotent
\* function: one result per text, and a result formats to itself
EngineIdempotent ==
    \A p \in memo : \A q \in memo :
        /\ p[1] = q[1] => p[2] = q[2]
        /\ (p[2] # None /\ q[1] = p[2]) => q[2] = q[1]

\* C5: with an idempotent external formatter, format_cell_content on the text
\* a successful pass produced formats no region again (each formatted text
\* equals the region's sql) and returns None.
C5_SecondPassIsNoChange ==
    (SecondPassOnResult /\ FirstPassSucceeded /\ EngineIdempotent
        /\ pc = "returned") =>
        /\ returned = None
        /\ \A o \in Outcomes :
               o.formatted_sql # None => o.formatted_sql = o.context.sql

\* C8: find_sql_to_format on the text format_cell_content returned finds as
\* many regions, of the same kinds, as it found on the original text.
C8_SameRegionsAfterSplice ==
    (SecondPassOnResult /\ pc \in {"loop", "returned"}) =>
        /\ Len(sql_contexts) = Len(prev.contexts)
        /\ \A i \in 1..Len(sql_contexts) :
               sql_contexts[i].type = prev.contexts[i].type

----------------------------------------------------------------------------
(* Properties of the masker (SpecMask) *)

Digits == { DigitChars[i] : i \in 1..Len(DigitChars) }

RECURSIVE SkipDigits(_, _)
SkipDigits(t, i) ==
    IF i < Len(t) /\ t[i + 1] \in Digits THEN SkipDigits(t, i + 1) ELSE i

\* a placeholder-shaped substring, __MASK_<digits>_, at offset i
PlaceholderShapedAt(t, i) ==
    /\ StartsWithAt(t, i, <<"_", "_", "M", "A", "S", "K", "_">>)
    /\ LET d == SkipDigits(t, i + 7)
       IN  d > i + 7 /\ StartsWithAt(t, d, <<"_">>)

NoPlaceholderShaped(t) == \A i \in 0..Len(t) : ~PlaceholderShapedAt(t, i)

\* MASK_ followed by a digit, at offset i
MaskDigitAt(t, i) ==
    /\ StartsWithAt(t, i, <<"M", "A", "S", "K", "_">>)
    /\ i + 5 < Len(t)
    /\ t[i + 6] \in Digits

NoMaskDigit(t) == \A i \in 0..Len(t) : ~MaskDigitAt(t, i)

\* C6, as stated: unmasking the masked text gives back every text that holds
\* no placeholder-shaped substring.
C6_RoundTripNoPlaceholder ==
    (stage = "unmasked" /\ NoPlaceholderShaped(arg)) => restored = arg

\* C6, amended: unmasking the masked text gives back every text in which
\* MASK_ is nowhere followed by a digit.
C6_RoundTripNoMaskDigit ==
    (stage = "unmasked" /\ NoMaskDigit(arg)) => restored = arg

\* two interpolations, next to each other and next to an underscore
C6_Witness ==
    /\ stage = "unmasked"
    /\ NoMaskDigit(arg)
    /\ Len(mapping) = 2
    /\ arg = <<"_", "{", "a", "}", "{", "b", "}">>
    /\ restored = arg

\* C7: the k-th interpolation (from 0) is replaced by __MASK_<k>__ and the
\* mapping records its text, braces included, under that token.
C7_PlaceholderForm ==
    stage = "masked" =>
        \A k \in 1..Len(mapping) :
            /\ mapping[k].placeholder =
                   <<"_", "_", "M", "A", "S", "K", "_">> \o Decimal(k - 1)
                       \o <<"_", "_">>
            /\ Head(mapping[k].original) = "{"
            /\ mapping[k].original[Len(mapping[k].original)] = "}"

----------------------------------------------------------------------------
(* Properties of the locator (SpecLocate) *)

RECURSIVE SkipBlanks(_, _)
\* the offset after the white space other than newlines that starts at i
SkipBlanks(t, i) ==
    IF i < Len(t) /\ t[i + 1] \in Whitespace \ {NL}
    THEN SkipBlanks(t, i + 1) ELSE i

\* the text begins with the line %%sql, white space, newline
BeginsWithMagicLine(t) ==
    /\ StartsWithAt(t, 0, MagicHeader)
    /\ StartsWithAt(t, SkipBlanks(t, Len(MagicHeader)), <<NL>>)

\* the offset after the header line's newline
AfterMagicLine(t) == SkipBlanks(t, Len(MagicHeader)) + 1

\* C9: a text that begins with the magic header line gives exactly one region,
\* the whole remainder after the header line, of kind magic.
C9_MagicWholeRemainder ==
    (stage = "located" /\ BeginsWithMagicLine(arg)) =>
        regions = <<[sql |-> Slice(arg, AfterMagicLine(arg), Len(arg)),
                     start |-> AfterMagicLine(arg), end |-> Len(arg),
                     is_fstring |-> FALSE, quote_style |-> <<>>,
                     type |-> "magic"]>>

\* C10: without a magic header, the regions come in strictly increasing
\* order of start and do not overlap; each span lies inside the text and is
\* the literal: the f prefix iff the region is templated, the delimiter, the
\* content, the same delimiter.
C10_RegionsOrderedSpans ==
    (stage = "located" /\ ~BeginsWithMagicLine(arg)) =>
        \A i \in 1..Len(regions) :
            LET r == regions[i]
            IN  /\ 0 <= r.start /\ r.start < r.end /\ r.end <= Len(arg)
                /\ i < Len(regions) =>
                       /\ r.start < regions[i + 1].start
                       /\ r.end <= regions[i + 1].start
                /\ r.type = "spark_sql"
                /\ r.quote_style \in {TSQ, TDQ, <<SQ>>, <<DQ>>}
                /\ r.sql # <<>>
                /\ Slice(arg, r.start, r.end) =
                       (IF r.is_fstring THEN <<"f">> ELSE <<>>)
                           \o r.quote_style \o r.sql \o r.quote_style
                /\ r.is_fstring <=> arg[r.start + 1] = "f"
                /\ r.start >= 1 /\ arg[r.start] # "f"

\* two regions, the second one templated and in triple quotes
C10_Witness ==
    /\ stage = "located"
    /\ ~BeginsWithMagicLine(arg)
    /\ Len(regions) = 2
    /\ ~regions[1].is_fstring
    /\ regions[2].is_fstring
    /\ regions[2].quote_style = TSQ

\* the offset of the opening delimiter of a call-argument region
OpeningOffset(r) == IF r.is_fstring THEN r.start + 1 ELSE r.start

\* three quote characters c in a row at offset i
TripleAt(t, i, c) == StartsWithAt(t, i, <<c, c, c>>)

\* C11: every call-argument region closes with the delimiter it opens with,
\* and a string that opens with three quote characters is never reported
\* with a one-character quote style.
C11_TripleDelimiterAtomic ==
    stage = "located" =>
        \A i \in 1..Len(regions) :
            LET r == regions[i]
            IN  r.type = "spark_sql" =>
                    /\ StartsWithAt(arg, OpeningOffset(r), r.quote_style)
                    /\ Slice(arg, r.end - Len(r.quote_style), r.end)
                           = r.quote_style
                    /\ Len(r.quote_style) = 1 =>
                           ~TripleAt(arg, OpeningOffset(r), r.quote_style[1])

----------------------------------------------------------------------------
(* Properties of the configuration surface (SpecConfig) *)

\* the calls that validate a configuration
ValidatingCalls ==
    {"SQLGlotConfig", "init", "set_config", "register_hooks",
     "load_ipython_extension"}

\* C12: a construction with indent < 0 raises and installs nothing; a dialect
\* outside the known ones is accepted with a warning; the current
\* configuration always has indent >= 0; a rejected set_config leaves the
\* current configuration the one it was.
C12_CurrentIndentNonNegative ==
    /\ (last_call.op \in {"SQLGlotConfig", "init"}
            /\ last_call.raised # "RuntimeError" /\ last_call.indent < 0) =>
           /\ last_call.raised = "ValueError"
           /\ last_call.config = 0
           /\ current_config = last_call.before
    /\ (last_call.op \in ValidatingCalls /\ last_call.raised # "RuntimeError"
            /\ last_call.indent >= 0) =>
           /\ last_call.raised = "no"
           /\ last_call.warned <=> last_call.dialect \notin valid_dialects
    /\ current_config # 0 => config_objects[current_config].indent >= 0
    /\ (last_call.op = "set_config" /\ last_call.raised = "ValueError") =>
           current_config = last_call.before

----------------------------------------------------------------------------
(* Properties of the substituted string (Spec) *)

RECURSIVE LineStart(_, _)
\* the offset where the line holding offset pos begins
LineStart(t, pos) ==
    IF pos = 0 \/ t[pos] = NL THEN pos ELSE LineStart(t, pos - 1)

\* the leading white space of the line of the entry text on which the region
\* starts
LeadingRun(c) ==
    LET ls == LineStart(entry_cell, c.start)
    IN  Slice(entry_cell, ls, SkipBlanks(entry_cell, ls))

\* each non-blank line of t after the indentation and four spaces, blank
\* lines empty, joined by newlines
IndentedLines(t, indentation) ==
    LET lines == Split(t, NL)
    IN  Join([i \in 1..Len(lines) |->
                 IF \E k \in 1..Len(lines[i]) : lines[i][k] \notin Whitespace
                 THEN indentation \o <<SP, SP, SP, SP>> \o lines[i]
                 ELSE <<>>],
             <<NL>>)

\* the string the claim describes for region c, formatted text t and baseIndent
Substituted(c, t, baseIndent) ==
    LET prefix == IF c.is_fstring THEN <<"f">> ELSE <<>>
    IN  IF c.type = "magic" THEN t
        ELSE IF Len(c.quote_style) = 3
        THEN prefix \o c.quote_style \o <<NL>> \o IndentedLines(t, baseIndent)
             \o <<NL>> \o baseIndent \o c.quote_style
        ELSE prefix \o c.quote_style \o t \o c.quote_style

\* the region formatted last has its string at its offset in the text
LastSubstitutedInPlace ==
    (outcomes # <<>> /\ outcomes[Len(outcomes)].status = "Formatted") =>
        LET o == outcomes[Len(outcomes)]
        IN  Slice(modified_content, o.context.start,
                  o.context.start + Len(o.formatted_string)) = o.formatted_string

\* C13 as stated: the substituted string has the described form, baseIndent
\* being the leading white space of the region's line itself.
C13_SubstitutedFormRun ==
    /\ LastSubstitutedInPlace
    /\ \A o \in Formatted :
           o.formatted_string =
               Substituted(o.context, o.formatted_sql, LeadingRun(o.context))

\* C13: the substituted string has the described form, baseIndent being as
\* many spaces as the leading white space of the region's line is long.
C13_SubstitutedFormSpaces ==
    /\ LastSubstitutedInPlace
    /\ \A o \in Formatted :
           o.formatted_string =
               Substituted(o.context, o.formatted_sql,
                           Spaces(Len(LeadingRun(o.context))))

\* a templated triple-quoted region on a line indented with a tab received a
\* text with a blank line
C13_Witness ==
    \E o \in Formatted :
        /\ o.context.quote_style = TSQ
        /\ o.context.is_fstring
        /\ "\t" \in { LeadingRun(o.context)[k] :
                        k \in 1..Len(LeadingRun(o.context)) }
        /\ FindFrom(o.formatted_sql, <<NL, NL>>, 0) # -1

----------------------------------------------------------------------------
(* Properties of change detection (Spec) *)

\* the formatter answered for the region with a text
Answered == { o \in Outcomes : o.formatted_sql # None }

\* the region visited last still has its original span in the text
LastSpanKept ==
    LET o == outcomes[Len(outcomes)]
    IN  Slice(modified_content, o.context.start, o.context.end)
            = OriginalSpan(o.context)

====
